---- MODULE Spec2Model ----
(***************************************************************************)
(* The dashboard state controller of the movie recommender front end       *)
(* (Front_end/src/Dashboard.js): the React state of the Dashboard          *)
(* component, the persisted session storage, the requests it has in        *)
(* flight, and the remote service those requests talk to; and the login    *)
(* form (Front_end/src/App.js) that writes the persisted session; and the  *)
(* registration form (Front_end/src/signup.js).                            *)
(*                                                                         *)
(* Ratings and means are kept in tenths (35 is 3.5).  A request in flight  *)
(* is a record in the sequence net, in issue order; the remote service     *)
(* handles it at one moment and the client receives the response at a      *)
(* later one.                                                              *)
(***************************************************************************)
EXTENDS Integers, Sequences, FiniteSets, TLC

\* ------------------------------------------------------------ bounds
\* number of user interactions (clicks, selections) explored; switching tabs and
\* picking a star are not counted
MaxOps == 3
\* number of submissions of the login form explored
MaxAttempts == 3

\* ------------------------------------------------------------ values
NULL == "null"
\* genres after setGenres(undefined): no list at all (kept comparable with lists)
Undefined == <<"undefined">>
\* the movie of a closed modal (null) and of a request that names none
NoMovie == 0
Token == "tok"
UserRecord == "alice"
Movies == {1, 2}
DefaultMean == 35
Limit == 20
Stars == {1, 2, 3, 4, 5}
Tabs == {"recommendations", "my-ratings", "watchlist"}
EraOptions == {"any", "classic", "retro", "modern", "recent"}
\* the slider positions and era options the explored user picks among
MinRatingChoices == {50}
StarChoices == {5}
TabChoices == {"recommendations", "watchlist"}
EraChoices == {"classic"}
\* the movie the explored user bookmarks: one the service's watchlist lacks
AddChoices == {1}
\* the genre catalogue the service serves
GenreCatalog == <<"Action", "Drama">>
\* the recommendation lists the (opaque) ranking may return
RecLists == {<<1>>, <<2, 1>>}
\* the ratings the service may hold for the user when the dashboard starts
InitialServerRatings == {[m \in Movies |-> IF m = 1 THEN 4 ELSE 0]}
InitialServerWatchlists == {<<2>>}

VARIABLES
    localStorage,     \* persisted session storage: [token, user]
    pc,               \* "boot" (before the mount effect), "mounted", "redirected"
                      \* (startup sent the user to login), "left" (logout), "crashed"
    navCount,         \* number of navigate('/login') calls
    user, userStats, recommendations, isLoadingRecs,
    selectedGenres, minRating, era, genres, userRatings,
    activeTab, watchlist, ratingModal, tempRating,
    net,              \* requests in flight, in issue order
    srvRatings, srvWatchlist, srvVer,   \* the remote service's record of the user
    statsVer,         \* srvVer of the service state that userStats was taken from
    ops,              \* user interactions so far
    userNameError, passwordError, invalidCredentials, isLoading,   \* login form state
    loginNet,         \* POST /api/login calls in flight
    dashNavCount,     \* number of navigate('/dashboard') calls
    attempts,         \* submissions of the login form so far
    formData, errors, signupLoading, successMessage   \* registration form state
                      \* (signupLoading is the isLoading of signup.js)

vars == <<localStorage, pc, navCount, user, userStats, recommendations, isLoadingRecs,
          selectedGenres, minRating, era, genres, userRatings, activeTab, watchlist,
          ratingModal, tempRating, net, srvRatings, srvWatchlist, srvVer, statsVer, ops,
          userNameError, passwordError, invalidCredentials, isLoading, loginNet,
          dashNavCount, attempts, formData, errors, signupLoading, successMessage>>

\* the React state of the component: what a render can show
view == <<user, userStats, recommendations, isLoadingRecs, selectedGenres, minRating,
          era, genres, userRatings, activeTab, watchlist, ratingModal, tempRating>>

storageVars == <<localStorage, navCount>>
filterVars == <<selectedGenres, minRating, era>>
modalVars == <<ratingModal, tempRating>>
serverVars == <<srvRatings, srvWatchlist, srvVer>>
\* the login form: its React state, its calls in flight, what it navigated to
loginVars == <<userNameError, passwordError, invalidCredentials, isLoading, loginNet,
               dashNavCount, attempts>>
\* the registration form: its React state
signupVars == <<formData, errors, signupLoading, successMessage>>
\* everything the dashboard owns
dashboardVars == <<pc, navCount, view, net, statsVer, ops>>

\* ------------------------------------------------------------ helpers
RECURSIVE SumOver(_, _)
SumOver(f, S) ==
    IF S = {} THEN 0
    ELSE LET x == CHOOSE y \in S : TRUE IN f[x] + SumOver(f, S \ {x})

Range(s) == {s[i] : i \in 1..Len(s)}

RemoveAt(s, i) == SubSeq(s, 1, i - 1) \o SubSeq(s, i + 1, Len(s))

\* JavaScript's  a || b  on numbers
OrElse(a, b) == IF a = 0 THEN b ELSE a

NoQuery == [user_mean |-> 0, genres |-> <<>>, min_rating |-> 0, era |-> "", limit |-> 0]
NoStats == [user_mean |-> -1, rating_count |-> -1]
NoRatings == [m \in Movies |-> 0]

BlankResponse ==
    [ok |-> FALSE, stats |-> NoStats, ratings |-> NoRatings, list |-> <<>>, ver |-> 0]

Request(kind, auth, movie, rating, query) ==
    [kind |-> kind, stage |-> "req", auth |-> auth, movie |-> movie,
     rating |-> rating, query |-> query, resp |-> BlankResponse]

Bearer == {"stats", "ratings", "watchlist", "rate", "add"}

Mounted == pc = "mounted"

\* the fields of the registration form, and a form (or an errors object) with
\* nothing in any of them
SignupFields == {"username", "email", "password", "confirmPassword", "name"}
EmptyForm == [f \in SignupFields |-> ""]

\* ------------------------------------------------------------ initial state
\* useState defaults
InitialUserStats == [user_mean |-> DefaultMean, rating_count |-> 0]
ModalClosed == [show |-> FALSE, movie |-> NoMovie]

Init ==
    /\ localStorage \in [token : {NULL, Token}, user : {NULL, UserRecord}]
    /\ pc = "boot"
    /\ navCount = 0
    /\ user = NULL
    /\ userStats = InitialUserStats
    /\ recommendations = <<>>
    /\ isLoadingRecs = FALSE
    /\ selectedGenres = <<>>
    /\ minRating = 35
    /\ era = "any"
    /\ genres = <<>>
    /\ userRatings = NoRatings
    /\ activeTab = "recommendations"
    /\ watchlist = <<>>
    /\ ratingModal = ModalClosed
    /\ tempRating = 0
    /\ net = <<>>
    /\ srvRatings \in InitialServerRatings
    /\ srvWatchlist \in InitialServerWatchlists
    /\ srvVer = 0
    /\ statsVer = 0
    /\ ops = 0
    /\ userNameError = ""
    /\ passwordError = ""
    /\ invalidCredentials = ""
    /\ isLoading = FALSE
    /\ loginNet = <<>>
    /\ dashNavCount = 0
    /\ attempts = 0
    /\ formData = EmptyForm
    /\ errors = EmptyForm
    /\ signupLoading = FALSE
    /\ successMessage = ""

\* ------------------------------------------------------------ requests
fetchGenres == Request("genres", NULL, NoMovie, 0, NoQuery)
fetchUserStats == Request("stats", localStorage.token, NoMovie, 0, NoQuery)
fetchUserRatings == Request("ratings", localStorage.token, NoMovie, 0, NoQuery)
fetchWatchlist == Request("watchlist", localStorage.token, NoMovie, 0, NoQuery)

RecommendBodyStaleMean ==
    [user_mean |-> DefaultMean, genres |-> selectedGenres,
     min_rating |-> minRating, era |-> era, limit |-> Limit]

\* the body of POST /api/recommend
RecommendBody ==
    [user_mean |-> userStats.user_mean, genres |-> selectedGenres,
     min_rating |-> minRating, era |-> era, limit |-> Limit]

fetchRecommendationsRequest == Request("recommend", NULL, NoMovie, 0, RecommendBody)

rateMovieRequest(movieId, rating) ==
    Request("rate", localStorage.token, movieId, rating, NoQuery)

addToWatchlistRequest(movieId) ==
    Request("add", localStorage.token, movieId, 0, NoQuery)

\* ------------------------------------------------------------ mount effect
AuthenticatedUserOnly == localStorage.user # NULL

AuthenticatedTokenOnly == localStorage.token # NULL

Authenticated == localStorage.token # NULL /\ localStorage.user # NULL

MountAwaitsStats ==
    /\ pc = "boot"
    /\ IF Authenticated
       THEN /\ user' = localStorage.user
            /\ net' = net \o <<fetchUserStats, fetchGenres>>
            /\ pc' = "mounted"
            /\ navCount' = navCount
       ELSE /\ user' = user
            /\ navCount' = navCount + 1
            /\ pc' = "redirected"
            /\ net' = net \o <<fetchGenres>>
    /\ UNCHANGED <<localStorage, userStats, recommendations, isLoadingRecs, filterVars,
                   genres, userRatings, activeTab, watchlist, modalVars, serverVars,
                   statsVer, ops>>
    /\ UNCHANGED <<loginVars, signupVars>>

\* the mount effect: the session check, then the refreshes, none awaited
Mount ==
    /\ pc = "boot"
    /\ IF Authenticated
       THEN /\ user' = localStorage.user
            /\ net' = net \o <<fetchUserStats, fetchUserRatings, fetchWatchlist, fetchGenres>>
            /\ pc' = "mounted"
            /\ navCount' = navCount
       ELSE /\ user' = user
            /\ navCount' = navCount + 1
            /\ pc' = "redirected"
            /\ net' = net \o <<fetchGenres>>
    /\ UNCHANGED <<localStorage, userStats, recommendations, isLoadingRecs, filterVars,
                   genres, userRatings, activeTab, watchlist, modalVars, serverVars,
                   statsVer, ops>>
    /\ UNCHANGED <<loginVars, signupVars>>

\* ------------------------------------------------------------ remote service
\* the aggregate the service reports for a rating record (mean in tenths, 0 when
\* there is none)
ServiceStats(ratings) ==
    LET rated == {m \in Movies : ratings[m] # 0}
        count == Cardinality(rated)
    IN  [user_mean |-> IF count = 0 THEN 0 ELSE (SumOver(ratings, rated) * 10) \div count,
         rating_count |-> count]

Reads == {"stats", "ratings", "watchlist"}
Writes == {"rate", "add"}

\* the answer of the service to a read it handles now
ReadResponse(kind) ==
    [ok |-> TRUE,
     stats |-> IF kind = "stats" THEN ServiceStats(srvRatings) ELSE NoStats,
     ratings |-> IF kind = "ratings" THEN srvRatings ELSE NoRatings,
     list |-> IF kind = "watchlist" THEN srvWatchlist ELSE <<>>,
     ver |-> srvVer]

\* the reads a write makes stale: those of the record it changes
Affects(write, read) ==
    \/ write = "rate" /\ read \in {"stats", "ratings"}
    \/ write = "add" /\ read = "watchlist"

\* The service handles a write that carries the session's credential.  A rating
\* upsert answers with the new aggregates, or with a success body that carries no
\* user_stats.  Any pending read of the record it changes may have been handled
\* just before it: such a read keeps the answer taken then.  (A read no write
\* overtakes is answered when it is received; a request the service refuses
\* leaves its record alone: see Refused.)
ServerHandle(i) ==
    /\ i \in 1..Len(net)
    /\ net[i].stage = "req"
    /\ net[i].kind \in Writes
    /\ net[i].auth = Token
    /\ \E withStats \in (IF net[i].kind = "rate" THEN BOOLEAN ELSE {TRUE}) :
       \E early \in SUBSET {j \in 1..Len(net) : /\ net[j].stage = "req"
                                                /\ net[j].auth = Token
                                                /\ Affects(net[i].kind, net[j].kind)} :
          LET req == net[i]
              newRatings == IF req.kind = "rate"
                            THEN [srvRatings EXCEPT ![req.movie] = req.rating]
                            ELSE srvRatings
              newVer == IF req.kind = "rate" THEN srvVer + 1 ELSE srvVer
              newWatchlist == IF req.kind = "add" /\ req.movie \notin Range(srvWatchlist)
                              THEN Append(srvWatchlist, req.movie)
                              ELSE srvWatchlist
              response ==
                  [ok |-> TRUE,
                   stats |-> IF req.kind = "rate" /\ withStats
                             THEN ServiceStats(newRatings) ELSE NoStats,
                   ratings |-> NoRatings,
                   list |-> <<>>,
                   ver |-> newVer]
          IN  /\ srvRatings' = newRatings
              /\ srvVer' = newVer
              /\ srvWatchlist' = newWatchlist
              /\ net' = [j \in 1..Len(net) |->
                           IF j = i THEN [req EXCEPT !.stage = "resp", !.resp = response]
                           ELSE IF j \in early
                                THEN [net[j] EXCEPT !.stage = "resp",
                                                    !.resp = ReadResponse(net[j].kind)]
                                ELSE net[j]]
    /\ UNCHANGED <<localStorage, pc, navCount, view, statsVer, ops>>
    /\ UNCHANGED <<loginVars, signupVars>>

\* ------------------------------------------------------------ response handlers
\* a success response to request i of this kind can be received
Arrived(i, kind) ==
    /\ i \in 1..Len(net)
    /\ net[i].kind = kind
    /\ \/ net[i].stage = "resp"
       \/ kind \in Reads /\ net[i].auth = Token

ResponseTo(i) == IF net[i].stage = "resp" THEN net[i].resp ELSE ReadResponse(net[i].kind)

\* setUserStats argument of fetchUserStats
StatsFromRefresh(data) ==
    [user_mean |-> OrElse(data.user_mean, DefaultMean),
     rating_count |-> OrElse(data.rating_count, 0)]

ReceiveUserStats(i) ==
    /\ Arrived(i, "stats")
    /\ net' = RemoveAt(net, i)
    /\ IF ResponseTo(i).ok /\ Mounted
       THEN /\ userStats' = StatsFromRefresh(ResponseTo(i).stats)
            /\ statsVer' = ResponseTo(i).ver
       ELSE UNCHANGED <<userStats, statsVer>>
    /\ UNCHANGED <<storageVars, pc, user, recommendations, isLoadingRecs, filterVars,
                   genres, userRatings, activeTab, watchlist, modalVars, serverVars, ops>>
    /\ UNCHANGED <<loginVars, signupVars>>

ReceiveUserRatings(i) ==
    /\ Arrived(i, "ratings")
    /\ net' = RemoveAt(net, i)
    /\ userRatings' = IF ResponseTo(i).ok /\ Mounted THEN ResponseTo(i).ratings ELSE userRatings
    /\ UNCHANGED <<storageVars, pc, user, userStats, recommendations, isLoadingRecs,
                   filterVars, genres, activeTab, watchlist, modalVars, serverVars,
                   statsVer, ops>>
    /\ UNCHANGED <<loginVars, signupVars>>

ReceiveWatchlist(i) ==
    /\ Arrived(i, "watchlist")
    /\ net' = RemoveAt(net, i)
    /\ watchlist' = IF ResponseTo(i).ok /\ Mounted THEN ResponseTo(i).list ELSE watchlist
    /\ UNCHANGED <<storageVars, pc, user, userStats, recommendations, isLoadingRecs,
                   filterVars, genres, userRatings, activeTab, modalVars, serverVars,
                   statsVer, ops>>
    /\ UNCHANGED <<loginVars, signupVars>>

\* setUserRatings updater of rateMovie
RatingsAfterRate(prev, movieId, rating) == [prev EXCEPT ![movieId] = rating]

StatsFromRateLocal(data) == ServiceStats(userRatings)

\* setUserStats argument of rateMovie
StatsFromRate(data) ==
    [user_mean |-> data.user_mean, rating_count |-> data.rating_count]

\* A success body without user_stats makes data.user_stats.user_mean throw after
\* setUserRatings was queued: the catch leaves userStats and the modal alone.
ReceiveRate(i) ==
    /\ Arrived(i, "rate")
    /\ net' = RemoveAt(net, i)
    /\ IF net[i].resp.ok /\ Mounted
       THEN /\ userRatings' = RatingsAfterRate(userRatings, net[i].movie, net[i].rating)
            /\ IF net[i].resp.stats # NoStats
               THEN /\ userStats' = StatsFromRate(net[i].resp.stats)
                    /\ statsVer' = net[i].resp.ver
                    /\ ratingModal' = ModalClosed
               ELSE UNCHANGED <<userStats, statsVer, ratingModal>>
       ELSE UNCHANGED <<userRatings, userStats, statsVer, ratingModal>>
    /\ UNCHANGED <<storageVars, pc, user, recommendations, isLoadingRecs, filterVars,
                   genres, activeTab, watchlist, tempRating, serverVars, ops>>
    /\ UNCHANGED <<loginVars, signupVars>>

ReceiveAddInsertsLocally(i) ==
    /\ Arrived(i, "add")
    /\ net' = RemoveAt(net, i)
    /\ watchlist' = IF net[i].resp.ok /\ Mounted /\ net[i].movie \notin Range(watchlist)
                    THEN Append(watchlist, net[i].movie) ELSE watchlist
    /\ UNCHANGED <<storageVars, pc, user, userStats, recommendations, isLoadingRecs,
                   filterVars, genres, userRatings, activeTab, modalVars, serverVars,
                   statsVer, ops>>
    /\ UNCHANGED <<loginVars, signupVars>>

\* addToWatchlist after its await: a refresh on success, with the token read now
ReceiveAdd(i) ==
    /\ Arrived(i, "add")
    /\ net' = IF net[i].resp.ok
              THEN RemoveAt(net, i) \o <<fetchWatchlist>>
              ELSE RemoveAt(net, i)
    /\ UNCHANGED <<storageVars, pc, view, serverVars, statsVer, ops>>
    /\ UNCHANGED <<loginVars, signupVars>>

\* A bearer call the service refuses (401 without the credential, or any 4xx/5xx):
\* res.ok is false and every handler skips its update.
Refused(i) ==
    /\ i \in 1..Len(net)
    /\ net[i].kind \in Bearer
    /\ net[i].stage = "req"
    /\ net' = RemoveAt(net, i)
    /\ UNCHANGED <<storageVars, pc, view, serverVars, statsVer, ops>>
    /\ UNCHANGED <<loginVars, signupVars>>

\* A bearer call that throws (no response, or a body that is not JSON), before or
\* after the service handled it: the catch logs and changes nothing.
NetworkError(i) ==
    /\ i \in 1..Len(net)
    /\ net[i].kind \in Bearer
    /\ net' = RemoveAt(net, i)
    /\ UNCHANGED <<storageVars, pc, view, serverVars, statsVer, ops>>
    /\ UNCHANGED <<loginVars, signupVars>>

\* fetchGenres has no res.ok test: a JSON error body sets genres to data.genres,
\* which is undefined, and the next render of the recommendations tab throws on
\* genres.map.
GenresOutcomes == {"ok", "error_json", "throw"}

GenresAfter(outcome) ==
    CASE outcome = "ok" -> GenreCatalog
      [] outcome = "error_json" -> Undefined
      [] OTHER -> genres

RenderThrows(tab, g) == tab = "recommendations" /\ g = Undefined

ReceiveGenres(i, outcome) ==
    /\ i \in 1..Len(net)
    /\ net[i].kind = "genres"
    /\ outcome \in GenresOutcomes
    /\ net' = RemoveAt(net, i)
    /\ genres' = IF Mounted THEN GenresAfter(outcome) ELSE genres
    /\ pc' = IF Mounted /\ RenderThrows(activeTab, genres') THEN "crashed" ELSE pc
    /\ UNCHANGED <<storageVars, user, userStats, recommendations, isLoadingRecs,
                   filterVars, userRatings, activeTab, watchlist, modalVars, serverVars,
                   statsVer, ops>>
    /\ UNCHANGED <<loginVars, signupVars>>

RecommendOutcomes == {"ok", "error", "throw"}

RecommendationsMerged(prev, list) == prev \o list

\* setRecommendations(data.recommendations)
RecommendationsAfter(prev, list) == list

RecommendResolvesNoFinally(i, outcome, list) ==
    /\ i \in 1..Len(net)
    /\ net[i].kind = "recommend"
    /\ outcome \in RecommendOutcomes
    /\ list \in RecLists
    /\ net' = RemoveAt(net, i)
    /\ recommendations' = IF outcome = "ok" /\ Mounted
                          THEN RecommendationsAfter(recommendations, list)
                          ELSE recommendations
    /\ isLoadingRecs' = IF outcome = "ok" /\ Mounted THEN FALSE ELSE isLoadingRecs
    /\ UNCHANGED <<storageVars, pc, user, userStats, filterVars, genres, userRatings,
                   activeTab, watchlist, modalVars, serverVars, statsVer, ops>>
    /\ UNCHANGED <<loginVars, signupVars>>

\* fetchRecommendations after its await, list being the recommendations of a
\* success body: the finally block clears the loading flag whatever the outcome
RecommendResolves(i, outcome, list) ==
    /\ i \in 1..Len(net)
    /\ net[i].kind = "recommend"
    /\ outcome \in RecommendOutcomes
    /\ list \in RecLists
    /\ net' = RemoveAt(net, i)
    /\ recommendations' = IF outcome = "ok" /\ Mounted
                          THEN RecommendationsAfter(recommendations, list)
                          ELSE recommendations
    /\ isLoadingRecs' = IF Mounted THEN FALSE ELSE isLoadingRecs
    /\ UNCHANGED <<storageVars, pc, user, userStats, filterVars, genres, userRatings,
                   activeTab, watchlist, modalVars, serverVars, statsVer, ops>>
    /\ UNCHANGED <<loginVars, signupVars>>

ReceiveRecommendations(i, outcome) ==
    \E list \in RecLists : RecommendResolves(i, outcome, list)

\* ------------------------------------------------------------ user interactions
\* every control is rendered by the mounted component
CanAct == Mounted /\ ops < MaxOps

\* a MovieCard of movie m is on screen
CardVisible(m) ==
    \/ activeTab = "recommendations" /\ m \in Range(recommendations)
    \/ activeTab = "watchlist" /\ m \in Range(watchlist)

ModalVisible == ratingModal.show /\ ratingModal.movie # NoMovie

\* (switching tabs is not counted in ops: there are only the three tabs)
setActiveTab(tab) ==
    /\ Mounted
    /\ tab \in Tabs
    /\ activeTab' = tab
    /\ pc' = IF RenderThrows(tab, genres) THEN "crashed" ELSE pc
    /\ UNCHANGED <<storageVars, user, userStats, recommendations, isLoadingRecs,
                   filterVars, genres, userRatings, watchlist, modalVars, net,
                   serverVars, statsVer, ops>>
    /\ UNCHANGED <<loginVars, signupVars>>

ToggledAppendOnly(prev, genre) == Append(prev, genre)

ToggledSingleSelect(prev, genre) == IF genre \in Range(prev) THEN <<>> ELSE <<genre>>

\* setSelectedGenres updater of toggleGenre
Toggled(prev, genre) ==
    IF genre \in Range(prev)
    THEN SelectSeq(prev, LAMBDA g : g # genre)
    ELSE Append(prev, genre)

toggleGenre(genre) ==
    /\ CanAct
    /\ activeTab = "recommendations"
    /\ genre \in Range(genres)
    /\ selectedGenres' = Toggled(selectedGenres, genre)
    /\ ops' = ops + 1
    /\ UNCHANGED <<storageVars, pc, user, userStats, recommendations, isLoadingRecs,
                   minRating, era, genres, userRatings, activeTab, watchlist, modalVars,
                   net, serverVars, statsVer>>
    /\ UNCHANGED <<loginVars, signupVars>>

setEraRefetches(value) ==
    /\ CanAct
    /\ activeTab = "recommendations"
    /\ value \in EraOptions
    /\ era' = value
    /\ net' = Append(net, fetchRecommendationsRequest)
    /\ ops' = ops + 1
    /\ UNCHANGED <<storageVars, pc, user, userStats, recommendations, isLoadingRecs,
                   selectedGenres, minRating, genres, userRatings, activeTab, watchlist,
                   modalVars, serverVars, statsVer>>
    /\ UNCHANGED <<loginVars, signupVars>>

setEra(value) ==
    /\ CanAct
    /\ activeTab = "recommendations"
    /\ value \in EraOptions
    /\ era' = value
    /\ ops' = ops + 1
    /\ UNCHANGED <<storageVars, pc, user, userStats, recommendations, isLoadingRecs,
                   selectedGenres, minRating, genres, userRatings, activeTab, watchlist,
                   modalVars, net, serverVars, statsVer>>
    /\ UNCHANGED <<loginVars, signupVars>>

setMinRating(value) ==
    /\ CanAct
    /\ activeTab = "recommendations"
    /\ value \in 10..50 /\ value % 5 = 0
    /\ minRating' = value
    /\ ops' = ops + 1
    /\ UNCHANGED <<storageVars, pc, user, userStats, recommendations, isLoadingRecs,
                   selectedGenres, era, genres, userRatings, activeTab, watchlist,
                   modalVars, net, serverVars, statsVer>>
    /\ UNCHANGED <<loginVars, signupVars>>

RecommendAlwaysEnabled == activeTab = "recommendations"

\* the Get Recommendations button: disabled={isLoadingRecs}
RecommendEnabled == activeTab = "recommendations" /\ ~isLoadingRecs

fetchRecommendationsNoFlag ==
    /\ CanAct
    /\ RecommendEnabled
    /\ net' = Append(net, fetchRecommendationsRequest)
    /\ ops' = ops + 1
    /\ UNCHANGED <<storageVars, pc, user, userStats, recommendations, isLoadingRecs,
                   filterVars, genres, userRatings, activeTab, watchlist, modalVars,
                   serverVars, statsVer>>
    /\ UNCHANGED <<loginVars, signupVars>>

\* fetchRecommendations up to its await
fetchRecommendations ==
    /\ CanAct
    /\ RecommendEnabled
    /\ isLoadingRecs' = TRUE
    /\ net' = Append(net, fetchRecommendationsRequest)
    /\ ops' = ops + 1
    /\ UNCHANGED <<storageVars, pc, user, userStats, recommendations, filterVars, genres,
                   userRatings, activeTab, watchlist, modalVars, serverVars, statsVer>>
    /\ UNCHANGED <<loginVars, signupVars>>

SeedNothing(m) == 0

\* the pending rating the Rate button seeds: userRatings[movie.movie_id] || 0
SeedRating(m) == OrElse(userRatings[m], 0)

OpenRatingModal(m) ==
    /\ CanAct
    /\ CardVisible(m)
    /\ tempRating' = SeedRating(m)
    /\ ratingModal' = [show |-> TRUE, movie |-> m]
    /\ ops' = ops + 1
    /\ UNCHANGED <<storageVars, pc, user, userStats, recommendations, isLoadingRecs,
                   filterVars, genres, userRatings, activeTab, watchlist, net,
                   serverVars, statsVer>>
    /\ UNCHANGED <<loginVars, signupVars>>

\* a star of the modal's StarRating (not counted in ops: there are only the five
\* stars)
SelectStar(star) ==
    /\ Mounted
    /\ ModalVisible
    /\ star \in Stars
    /\ tempRating' = star
    /\ UNCHANGED <<storageVars, pc, user, userStats, recommendations, isLoadingRecs,
                   filterVars, genres, userRatings, activeTab, watchlist, ratingModal,
                   net, serverVars, statsVer, ops>>
    /\ UNCHANGED <<loginVars, signupVars>>

CancelRatingModal ==
    /\ CanAct
    /\ ModalVisible
    /\ ratingModal' = ModalClosed
    /\ ops' = ops + 1
    /\ UNCHANGED <<storageVars, pc, user, userStats, recommendations, isLoadingRecs,
                   filterVars, genres, userRatings, activeTab, watchlist, tempRating,
                   net, serverVars, statsVer>>
    /\ UNCHANGED <<loginVars, signupVars>>

SaveAlwaysEnabled == ModalVisible

\* the Save Rating button: disabled={tempRating === 0}
SaveEnabled == ModalVisible /\ tempRating # 0

rateMovieOptimistic ==
    /\ CanAct
    /\ SaveEnabled
    /\ net' = Append(net, rateMovieRequest(ratingModal.movie, tempRating))
    /\ userRatings' = RatingsAfterRate(userRatings, ratingModal.movie, tempRating)
    /\ ops' = ops + 1
    /\ UNCHANGED <<storageVars, pc, user, userStats, recommendations, isLoadingRecs,
                   filterVars, genres, activeTab, watchlist, modalVars, serverVars,
                   statsVer>>
    /\ UNCHANGED <<loginVars, signupVars>>

\* rateMovie up to its await
rateMovie ==
    /\ CanAct
    /\ SaveEnabled
    /\ net' = Append(net, rateMovieRequest(ratingModal.movie, tempRating))
    /\ ops' = ops + 1
    /\ UNCHANGED <<storageVars, pc, view, serverVars, statsVer>>
    /\ UNCHANGED <<loginVars, signupVars>>

\* addToWatchlist up to its await
addToWatchlist(m) ==
    /\ CanAct
    /\ CardVisible(m)
    /\ net' = Append(net, addToWatchlistRequest(m))
    /\ ops' = ops + 1
    /\ UNCHANGED <<storageVars, pc, view, serverVars, statsVer>>
    /\ UNCHANGED <<loginVars, signupVars>>

handleLogoutTokenOnly ==
    /\ CanAct
    /\ localStorage' = [localStorage EXCEPT !.token = NULL]
    /\ navCount' = navCount + 1
    /\ pc' = "left"
    /\ ops' = ops + 1
    /\ UNCHANGED <<view, net, serverVars, statsVer>>
    /\ UNCHANGED <<loginVars, signupVars>>

handleLogout ==
    /\ CanAct
    /\ localStorage' = [token |-> NULL, user |-> NULL]
    /\ navCount' = navCount + 1
    /\ pc' = "left"
    /\ ops' = ops + 1
    /\ UNCHANGED <<view, net, serverVars, statsVer>>
    /\ UNCHANGED <<loginVars, signupVars>>

\* The dashboard route is opened again after the component went away (logout or
\* redirect): a new Dashboard instance with the useState defaults, about to run its
\* mount effect.  Calls of the old instance stay in flight.
OpenDashboard ==
    /\ pc \in {"left", "redirected"}
    /\ ops < MaxOps
    /\ pc' = "boot"
    /\ user' = NULL
    /\ userStats' = InitialUserStats
    /\ recommendations' = <<>>
    /\ isLoadingRecs' = FALSE
    /\ selectedGenres' = <<>>
    /\ minRating' = 35
    /\ era' = "any"
    /\ genres' = <<>>
    /\ userRatings' = NoRatings
    /\ activeTab' = "recommendations"
    /\ watchlist' = <<>>
    /\ ratingModal' = ModalClosed
    /\ tempRating' = 0
    /\ statsVer' = 0
    /\ ops' = ops + 1
    /\ UNCHANGED <<storageVars, net, serverVars>>
    /\ UNCHANGED <<loginVars, signupVars>>

\* ------------------------------------------------------------ login form
\* what the user may have typed in the two fields when the form is submitted
Usernames == {"", "alice", "bob"}
Passwords == {"", "pw"}
UsernameRequired == "Username is required"
PasswordRequired == "Password is required"
NetworkErrorText == "Network error. Please try again."
\* the bodies of a failed login: error, and error_username / error_password when
\* the service names the field ("" stands for a field the body does not carry)
LoginFailBodies ==
    [error : {"Invalid credentials"},
     error_username : {"", "User not found"},
     error_password : {"", "Incorrect password"}]
LoginOutcomes == {"ok", "fail", "throw"}

\* the form is on screen until it navigates to the dashboard
LoginShown == dashNavCount = 0

\* the submit button: disabled={isLoading}
SubmitEnabled == LoginShown /\ ~isLoading

handleLoginKeepsErrors(username, password) ==
    /\ SubmitEnabled
    /\ attempts < MaxAttempts
    /\ username \in Usernames
    /\ password \in Passwords
    /\ attempts' = attempts + 1
    /\ userNameError' = IF username = "" THEN UsernameRequired ELSE userNameError
    /\ passwordError' = IF username # "" /\ password = "" THEN PasswordRequired
                        ELSE passwordError
    /\ invalidCredentials' = invalidCredentials
    /\ IF username # "" /\ password # ""
       THEN /\ isLoading' = TRUE
            /\ loginNet' = Append(loginNet, [username |-> username, password |-> password])
       ELSE UNCHANGED <<isLoading, loginNet>>
    /\ UNCHANGED <<localStorage, dashNavCount, dashboardVars, serverVars, signupVars>>

\* handleLogin up to its await: the three errors are reset, then the first empty
\* field sets its error and returns; otherwise the call is issued
handleLogin(username, password) ==
    /\ SubmitEnabled
    /\ attempts < MaxAttempts
    /\ username \in Usernames
    /\ password \in Passwords
    /\ attempts' = attempts + 1
    /\ userNameError' = IF username = "" THEN UsernameRequired ELSE ""
    /\ passwordError' = IF username # "" /\ password = "" THEN PasswordRequired ELSE ""
    /\ invalidCredentials' = ""
    /\ IF username # "" /\ password # ""
       THEN /\ isLoading' = TRUE
            /\ loginNet' = Append(loginNet, [username |-> username, password |-> password])
       ELSE UNCHANGED <<isLoading, loginNet>>
    /\ UNCHANGED <<localStorage, dashNavCount, dashboardVars, serverVars, signupVars>>

\* handleLogin after its await: a success stores the session and navigates; a
\* failure body sets the errors of the fields it names and the generic one; a throw
\* sets the network message; the finally block clears isLoading
ReceiveLogin(i, outcome, body) ==
    /\ i \in 1..Len(loginNet)
    /\ outcome \in LoginOutcomes
    /\ body \in LoginFailBodies
    /\ loginNet' = RemoveAt(loginNet, i)
    /\ localStorage' = IF outcome = "ok" THEN [token |-> Token, user |-> UserRecord]
                       ELSE localStorage
    /\ dashNavCount' = IF outcome = "ok" THEN dashNavCount + 1 ELSE dashNavCount
    /\ passwordError' = IF outcome = "fail" /\ body.error_password # ""
                        THEN body.error_password ELSE passwordError
    /\ userNameError' = IF outcome = "fail" /\ body.error_username # ""
                        THEN body.error_username ELSE userNameError
    /\ invalidCredentials' = CASE outcome = "fail" -> body.error
                               [] outcome = "throw" -> NetworkErrorText
                               [] OTHER -> invalidCredentials
    /\ isLoading' = FALSE
    /\ UNCHANGED <<attempts, dashboardVars, serverVars, signupVars>>

\* ------------------------------------------------------------ registration form
\* what the user may type in each field
SignupValues ==
    [username |-> {"", "al", "al ice", "alice"},
     email |-> {"", "alice", "a@b.co"},
     password |-> {"", "short", "passw0rd", "Passw0rd"},
     confirmPassword |-> {"", "Passw0rd"},
     name |-> {"", "A", "Al"}]
\* !s.trim()
Blank(s) == s \in {"", " "}
\* the typed values that match /^[a-zA-Z0-9_]+$/, the e-mail pattern,
\* /(?=.*[a-z])/, /(?=.*[A-Z])/ and /(?=.*\d)/
WordLike == {"al", "alice"}
EmailLike == {"a@b.co"}
HasLower == {"short", "passw0rd", "Passw0rd", "al", "alice", "a@b.co", "al ice", "Al"}
HasUpper == {"Passw0rd", "A", "Al"}
HasDigit == {"passw0rd", "Passw0rd"}

\* newErrors of validate(), "" for a field it does not name
Validated(form) ==
    [username |->
        IF Blank(form.username) THEN "Username is required"
        ELSE IF Len(form.username) < 3 THEN "Username must be at least 3 characters"
        ELSE IF Len(form.username) > 20 THEN "Username must be less than 20 characters"
        ELSE IF form.username \notin WordLike
             THEN "Username can only contain letters, numbers, and underscores"
        ELSE "",
     email |->
        IF Blank(form.email) THEN "Email is required"
        ELSE IF form.email \notin EmailLike THEN "Please enter a valid email address"
        ELSE "",
     password |->
        IF form.password = "" THEN "Password is required"
        ELSE IF Len(form.password) < 8 THEN "Password must be at least 8 characters"
        ELSE IF form.password \notin HasLower
             THEN "Password must contain at least one lowercase letter"
        ELSE IF form.password \notin HasUpper
             THEN "Password must contain at least one uppercase letter"
        ELSE IF form.password \notin HasDigit
             THEN "Password must contain at least one number"
        ELSE "",
     confirmPassword |->
        IF form.confirmPassword = "" THEN "Please confirm your password"
        ELSE IF form.password # form.confirmPassword THEN "Passwords do not match"
        ELSE "",
     name |->
        IF Blank(form.name) THEN "Name is required"
        ELSE IF Len(form.name) < 2 THEN "Name must be at least 2 characters"
        ELSE ""]

\* an input's onChange: the field takes the value and its error, if any, is cleared
handleChange(name, value) ==
    /\ name \in SignupFields
    /\ value \in SignupValues[name]
    /\ formData' = [formData EXCEPT ![name] = value]
    /\ errors' = IF errors[name] # "" THEN [errors EXCEPT ![name] = ""] ELSE errors
    /\ UNCHANGED <<signupLoading, successMessage>>
    /\ UNCHANGED <<localStorage, dashboardVars, serverVars, loginVars>>

\* the Sign Up button: disabled={isLoading}
SignupEnabled == ~signupLoading

\* handleSubmit: the registration call and its finally block are commented out, so
\* nothing follows setIsLoading(true)
handleSubmit ==
    /\ SignupEnabled
    /\ errors' = Validated(formData)
    /\ IF Validated(formData) = EmptyForm
       THEN /\ signupLoading' = TRUE
            /\ successMessage' = ""
       ELSE UNCHANGED <<signupLoading, successMessage>>
    /\ UNCHANGED formData
    /\ UNCHANGED <<localStorage, dashboardVars, serverVars, loginVars>>

\* ------------------------------------------------------------ specification
Next ==
    \/ Mount
    \/ \E i \in 1..Len(net) : ServerHandle(i)
    \/ \E i \in 1..Len(net) : ReceiveUserStats(i)
    \/ \E i \in 1..Len(net) : ReceiveUserRatings(i)
    \/ \E i \in 1..Len(net) : ReceiveWatchlist(i)
    \/ \E i \in 1..Len(net) : ReceiveRate(i)
    \/ \E i \in 1..Len(net) : ReceiveAdd(i)
    \/ \E i \in 1..Len(net) : Refused(i)
    \/ \E i \in 1..Len(net) : NetworkError(i)
    \/ \E i \in 1..Len(net) : \E outcome \in GenresOutcomes : ReceiveGenres(i, outcome)
    \/ \E i \in 1..Len(net) : \E outcome \in RecommendOutcomes :
          ReceiveRecommendations(i, outcome)
    \/ \E tab \in TabChoices \ {activeTab} : setActiveTab(tab)
    \/ \E genre \in Range(GenreCatalog) : toggleGenre(genre)
    \/ \E value \in EraChoices : setEra(value)
    \/ \E value \in MinRatingChoices : setMinRating(value)
    \/ fetchRecommendations
    \/ \E m \in Movies : OpenRatingModal(m)
    \/ \E star \in StarChoices : SelectStar(star)
    \/ CancelRatingModal
    \/ rateMovie
    \/ \E m \in AddChoices : addToWatchlist(m)
    \/ handleLogout

Spec == Init /\ [][Next]_vars

\* The rating modal alone, on a dashboard whose startup refreshes have all been
\* applied and that shows the recommendation list <<2, 1>>, the user having just
\* opened the modal on movie 2 (which has no rating): ops counts the interactions
\* from there.
ModalInit ==
    /\ localStorage = [token |-> Token, user |-> UserRecord]
    /\ pc = "mounted"
    /\ navCount = 0
    /\ user = UserRecord
    /\ srvRatings \in InitialServerRatings
    /\ srvWatchlist \in InitialServerWatchlists
    /\ srvVer = 0
    /\ userStats = StatsFromRefresh(ServiceStats(srvRatings))
    /\ statsVer = 0
    /\ userRatings = srvRatings
    /\ watchlist = srvWatchlist
    /\ genres = GenreCatalog
    /\ recommendations = <<2, 1>>
    /\ isLoadingRecs = FALSE
    /\ selectedGenres = <<>>
    /\ minRating = 35
    /\ era = "any"
    /\ activeTab = "recommendations"
    /\ ratingModal = [show |-> TRUE, movie |-> 2]
    /\ tempRating = SeedRating(2)
    /\ net = <<>>
    /\ ops = 0
    /\ userNameError = ""
    /\ passwordError = ""
    /\ invalidCredentials = ""
    /\ isLoading = FALSE
    /\ loginNet = <<>>
    /\ dashNavCount = 0
    /\ attempts = 0
    /\ formData = EmptyForm
    /\ errors = EmptyForm
    /\ signupLoading = FALSE
    /\ successMessage = ""

ModalNext ==
    \/ \E m \in Movies : OpenRatingModal(m)
    \/ \E star \in StarChoices : SelectStar(star)
    \/ CancelRatingModal
    \/ rateMovie
    \/ \E i \in 1..Len(net) : ServerHandle(i)
    \/ \E i \in 1..Len(net) : ReceiveRate(i)
    \/ \E i \in 1..Len(net) : Refused(i)
    \/ \E i \in 1..Len(net) : NetworkError(i)

ModalSpec == ModalInit /\ [][ModalNext]_vars

\* the login form alone, from its first render
LoginNext ==
    \/ \E username \in Usernames : \E password \in Passwords : handleLogin(username, password)
    \/ \E i \in 1..Len(loginNet) : \E outcome \in LoginOutcomes : \E body \in LoginFailBodies :
          ReceiveLogin(i, outcome, body)

LoginSpec == Init /\ [][LoginNext]_vars

\* The registration form alone, from its first render.  The browser runs a handler
\* whenever its event has arrived: no step that is possible is put off for ever.
SignupNext ==
    \/ \E name \in SignupFields : \E value \in SignupValues[name] : handleChange(name, value)
    \/ handleSubmit

SignupSpec == Init /\ [][SignupNext]_vars /\ WF_vars(SignupNext)

\* The session: the login form and the dashboard's start and logout over the
\* storage they share, from an empty storage.  (The two are independent
\* components: the form as long as it has not navigated away, the dashboard route
\* whenever it is opened.)
SessionInit == Init /\ localStorage = [token |-> NULL, user |-> NULL]

SessionNext ==
    \/ LoginNext
    \/ Mount
    \/ handleLogout
    \/ OpenDashboard

SessionSpec == SessionInit /\ [][SessionNext]_vars

\* ------------------------------------------------------------ properties
InFlight(kind) == {i \in 1..Len(net) : net[i].kind = kind}

\* a rate call fails: the service refuses it or the call throws
RateFails(i) == net[i].kind = "rate" /\ (Refused(i) \/ NetworkError(i))

\* C1: when a successful rate response that carries user_stats is applied, the
\* resulting state has userRatings[m] = r and userStats equal to the user_mean and
\* rating_count of that response, whatever the local ratings map would average to.
C1_RateSuccessApplied ==
    [][\A i \in 1..Len(net) :
          (ReceiveRate(i) /\ Mounted /\ net[i].resp.stats # NoStats)
          => /\ userRatings'[net[i].movie] = net[i].rating
             /\ userStats'.user_mean = net[i].resp.stats.user_mean
             /\ userStats'.rating_count = net[i].resp.stats.rating_count]_vars

\* the stats refresh is still unanswered, so userStats came from a rate response;
\* it is the service's aggregate and differs from the average of the local map
C1_Witness ==
    /\ Mounted
    /\ statsVer >= 1
    /\ \E i \in InFlight("stats") : net[i].stage = "req"
    /\ userStats = ServiceStats(srvRatings)
    /\ userStats # ServiceStats(userRatings)

\* C2: a dashboard that started without a persisted token (the token is absent and
\* no logout removed it) has redirected to login exactly once and has issued none
\* of the authenticated refreshes.
C2_NoTokenStart ==
    (localStorage.token = NULL /\ pc \notin {"boot", "left"})
    => /\ pc = "redirected"
       /\ navCount = 1
       /\ \A i \in 1..Len(net) : net[i].kind \notin Reads

C2_Witness ==
    /\ pc = "redirected"
    /\ localStorage.token = NULL
    /\ navCount = 1
    /\ net = <<>>

\* C3: the resolution of a profile-stats refresh never replaces userStats with a
\* snapshot of the service older than the one they already reflect (in particular
\* with one taken before a rating whose response has been applied).
C3_RefreshNeverStale ==
    [][\A i \in 1..Len(net) : ReceiveUserStats(i) => statsVer' >= statsVer]_vars

\* C4 as stated: while a recommendation request is unresolved a second one can be
\* issued.
C4_SecondRequestPossible ==
    (Mounted /\ activeTab = "recommendations" /\ InFlight("recommend") # {})
    => RecommendEnabled

\* C4 amended: while a recommendation request is unresolved the request control is
\* disabled, so no second request can be issued and exactly one is in flight.
C4_NoReentry ==
    (Mounted /\ InFlight("recommend") # {})
    => /\ ~RecommendEnabled
       /\ Cardinality(InFlight("recommend")) = 1

C4_Witness ==
    /\ Mounted
    /\ activeTab = "recommendations"
    /\ ops < MaxOps
    /\ InFlight("recommend") # {}

\* C5: opening the rating modal for movie m sets the pending rating to
\* userRatings[m] when m has a rating and to 0 otherwise; and no step taken while
\* the pending rating is 0 issues a POST /api/ratings.
C5_SeedAndReject ==
    [][/\ \A m \in Movies :
             OpenRatingModal(m)
             => tempRating' = (IF userRatings[m] \in Stars THEN userRatings[m] ELSE 0)
       /\ tempRating = 0
          => Cardinality(InFlight("rate"))' <= Cardinality(InFlight("rate"))]_vars

\* the modal was opened on a movie rated 4 and seeded with it
C5_Witness ==
    /\ Mounted
    /\ ModalVisible
    /\ ratingModal.movie = 1
    /\ userRatings[1] = 4
    /\ tempRating = 4

\* C6: every bearer request in flight was issued with a session token.
C6_BearerNeedsToken ==
    \A i \in 1..Len(net) : net[i].kind \in Bearer => net[i].auth # NULL

\* C7: issuing a rate call leaves userRatings and userStats unchanged, and so does
\* its failure (refused by the service, or thrown).
C7_NoOptimisticWrite ==
    [][/\ rateMovie => UNCHANGED <<userRatings, userStats>>
       /\ \A i \in 1..Len(net) : RateFails(i) => UNCHANGED <<userRatings, userStats>>]_vars

\* a rate call is in flight and the local map does not hold its rating
C7_Witness ==
    /\ Mounted
    /\ \E i \in InFlight("rate") : userRatings[net[i].movie] # net[i].rating

\* C8: when a rating commit fails the modal stays open on the same movie with the
\* pending rating unchanged and the user is shown an error (what is rendered
\* changes); when it succeeds the modal is closed.
C8_FailedCommitSurfaced ==
    [][\A i \in 1..Len(net) :
          (Mounted /\ ModalVisible)
          => /\ RateFails(i) => /\ ratingModal' = ratingModal
                                /\ tempRating' = tempRating
                                /\ view' # view
             /\ ReceiveRate(i) => ~ModalVisible']_vars

\* C9: a remote call that fails, by a network error or a non-success response,
\* leaves genres, userStats, userRatings, watchlist and recommendations as they were.
C9_FailureKeepsData ==
    [][\A i \in 1..Len(net) :
          (\/ Refused(i)
           \/ NetworkError(i)
           \/ ReceiveGenres(i, "error_json")
           \/ ReceiveGenres(i, "throw")
           \/ ReceiveRecommendations(i, "error")
           \/ ReceiveRecommendations(i, "throw"))
          => UNCHANGED <<genres, userStats, userRatings, watchlist, recommendations>>]_vars

\* C10: every recommendation request carries exactly user_mean, genres, min_rating
\* and era as they are when it is issued, limit 20 and no token; the filters start
\* at genres [], min_rating 3.5, era 'any'.
C10_RequestBody ==
    [][/\ pc = "boot" => (selectedGenres = <<>> /\ minRating = 35 /\ era = "any")
       /\ fetchRecommendations
          => LET sent == net'[Len(net')]
             IN  /\ sent.kind = "recommend"
                 /\ sent.auth = NULL
                 /\ sent.query = [user_mean |-> userStats.user_mean,
                                  genres |-> selectedGenres,
                                  min_rating |-> minRating,
                                  era |-> era,
                                  limit |-> 20]]_vars

C10_Witness ==
    \E i \in InFlight("recommend") :
        /\ net[i].query.user_mean = 40
        /\ net[i].query.genres = <<"Drama">>
        /\ net[i].query.min_rating = 50
        /\ net[i].query.limit = 20

\* C11: toggling a genre and toggling it again gives back the selection (as a set)
\* that the first toggle started from, whatever selection earlier toggles left.
C11_ToggleTwice ==
    [][\A g \in Range(GenreCatalog) :
          toggleGenre(g) => Range(Toggled(selectedGenres', g)) = Range(selectedGenres)]_vars

\* three interactions have left Drama alone selected (Action toggled on and off)
C11_Witness ==
    /\ Mounted
    /\ ops >= 3
    /\ selectedGenres = <<"Drama">>
    /\ minRating = 35
    /\ era = "any"

\* C12: a failed login response sets the username error iff it carries
\* error_username and the password error iff it carries error_password (one with
\* only error_username leaves the password error empty); and a submission clears the
\* errors of the attempt before it: what it leaves set is its own validation error.
C12_LoginFieldErrors ==
    [][/\ \A i \in 1..Len(loginNet) : \A body \in LoginFailBodies :
             ReceiveLogin(i, "fail", body)
             => /\ (userNameError' # "") <=> (body.error_username # "")
                /\ (passwordError' # "") <=> (body.error_password # "")
       /\ \A username \in Usernames : \A password \in Passwords :
             handleLogin(username, password)
             => /\ invalidCredentials' = ""
                /\ userNameError' \in {"", "Username is required"}
                /\ passwordError' \in {"", "Password is required"}
                /\ (username # "" /\ password # "")
                   => (userNameError' = "" /\ passwordError' = "")]_vars

\* a later attempt was answered with error_username alone: only the username field
\* is marked
C12_Witness ==
    /\ attempts >= 2
    /\ loginNet = <<>>
    /\ userNameError = "User not found"
    /\ passwordError = ""
    /\ invalidCredentials = "Invalid credentials"

\* C13: the watchlist changes only when a watchlist refresh response is received,
\* and becomes the list of that response; receiving the success of an add leaves it
\* alone and starts exactly one refresh; a failed add leaves it alone and starts none.
C13_WatchlistOnlyByRefresh ==
    [][/\ watchlist' # watchlist
          => \E i \in 1..Len(net) : ReceiveWatchlist(i) /\ watchlist' = ResponseTo(i).list
       /\ \A i \in 1..Len(net) :
             /\ ReceiveAdd(i)
                => /\ watchlist' = watchlist
                   /\ Cardinality(InFlight("watchlist"))'
                         = Cardinality(InFlight("watchlist")) + 1
             /\ (net[i].kind = "add" /\ (Refused(i) \/ NetworkError(i)))
                => /\ watchlist' = watchlist
                   /\ Cardinality(InFlight("watchlist"))'
                         = Cardinality(InFlight("watchlist"))]_vars

\* the startup refresh has been applied, the service has since added movie 1, and
\* the refresh that the add's success started is in flight
C13_Witness ==
    /\ Mounted
    /\ watchlist = <<2>>
    /\ srvWatchlist = <<2, 1>>
    /\ InFlight("add") = {}
    /\ InFlight("watchlist") # {}

\* C14: when a successful recommendation response is applied, recommendations is
\* exactly the list of that response, in its order.
C14_ListReplaced ==
    [][\A i \in 1..Len(net) : \A list \in RecLists :
          (RecommendResolves(i, "ok", list) /\ Mounted) => recommendations' = list]_vars

\* a second interaction's response has been applied: the one-movie list is shown
C14_Witness ==
    /\ Mounted
    /\ ops >= 2
    /\ ~isLoadingRecs
    /\ InFlight("recommend") = {}
    /\ recommendations = <<1>>

\* C15: the mount effect of an authenticated start issues the four refreshes in one
\* step; each response leaves the other three slices alone; and once all four have
\* completed (before any user interaction, the component still rendered) each slice
\* holds either its initial value or the value of its own response, whatever the
\* order of completion was.
C15_StartupRefreshes ==
    [][/\ (Mount /\ Authenticated)
          => \A kind \in {"genres", "stats", "ratings", "watchlist"} :
                Cardinality(InFlight(kind))' = 1
       /\ \/ UNCHANGED <<genres, userStats, userRatings, watchlist>>
          \/ \A i \in 1..Len(net) :
                /\ ReceiveUserStats(i) => UNCHANGED <<genres, userRatings, watchlist>>
                /\ ReceiveUserRatings(i) => UNCHANGED <<genres, userStats, watchlist>>
                /\ ReceiveWatchlist(i) => UNCHANGED <<genres, userStats, userRatings>>
                /\ \A outcome \in GenresOutcomes :
                      ReceiveGenres(i, outcome)
                      => UNCHANGED <<userStats, userRatings, watchlist>>
       /\ (Mounted /\ ops = 0 /\ net = <<>>)
          => /\ genres \in {<<>>, GenreCatalog, Undefined}
             /\ userStats \in {InitialUserStats, StatsFromRefresh(ServiceStats(srvRatings))}
             /\ userRatings \in {NoRatings, srvRatings}
             /\ watchlist \in {<<>>, srvWatchlist}]_vars

\* all four refreshes have completed with success, before any interaction
C15_Witness ==
    /\ Mounted
    /\ ops = 0
    /\ net = <<>>
    /\ genres = GenreCatalog
    /\ userStats = StatsFromRefresh(ServiceStats(srvRatings))
    /\ userRatings = srvRatings
    /\ watchlist = srvWatchlist

\* C16: at most one POST /api/ratings is in flight at any time.
C16_OneRateInFlight == Cardinality(InFlight("rate")) <= 1

\* C17: a movie that has an entry in userRatings has one in every later state.
C17_RatingEntryKept ==
    [][\A m \in Movies : userRatings[m] # 0 => userRatings'[m] # 0]_vars

\* C18: issuing a recommendation request sets isLoadingRecs with the call in
\* flight; the resolution of the call, whatever its outcome, clears it; and nothing
\* but the resolution of a recommendation call clears it.
C18_LoadingBracketsCall ==
    [][/\ fetchRecommendations => (isLoadingRecs' /\ InFlight("recommend")' # {})
       /\ \A i \in 1..Len(net) : \A outcome \in RecommendOutcomes :
             (ReceiveRecommendations(i, outcome) /\ Mounted) => ~isLoadingRecs'
       /\ (isLoadingRecs /\ ~isLoadingRecs')
          => \E i \in 1..Len(net) : \E outcome \in RecommendOutcomes :
                ReceiveRecommendations(i, outcome)]_vars

\* a request is loading after an earlier one resolved with a list
C18_Witness ==
    /\ Mounted
    /\ isLoadingRecs
    /\ Cardinality(InFlight("recommend")) = 1
    /\ recommendations # <<>>

\* C19: the failure of a recommendation request leaves the component in a state
\* that records it: what is rendered afterwards differs from the state the
\* component was in before the request (the same view, not loading).
C19_FailureRecorded ==
    [][\A i \in 1..Len(net) :
          (Mounted /\ (\/ ReceiveRecommendations(i, "error")
                       \/ ReceiveRecommendations(i, "throw")))
          => view' # <<user, userStats, recommendations, FALSE, selectedGenres, minRating,
                       era, genres, userRatings, activeTab, watchlist, ratingModal,
                       tempRating>>]_vars

\* C20: once the local watchlist agrees with the service's, with no add in flight
\* and a single refresh left in flight, the success response of that refresh leaves
\* them in agreement (so the watchlist ends equal to the service's once every
\* response has arrived and the user has stopped).
C20_LastRefreshAgrees ==
    [][\A i \in 1..Len(net) :
          (/\ ReceiveWatchlist(i)
           /\ Mounted
           /\ InFlight("add") = {}
           /\ InFlight("watchlist") = {i}
           /\ watchlist = srvWatchlist)
          => watchlist' = srvWatchlist]_vars

\* C21: a filter change (a genre toggle, the era, the minimum rating) issues no
\* request and leaves recommendations, isLoadingRecs, userStats, userRatings and
\* watchlist alone; only the request action adds a recommendation request.
C21_FiltersAreLocal ==
    [][/\ (\/ \E g \in Range(GenreCatalog) : toggleGenre(g)
           \/ \E value \in EraOptions : setEra(value)
           \/ \E value \in 10..50 : setMinRating(value))
          => UNCHANGED <<net, recommendations, isLoadingRecs, userStats, userRatings,
                         watchlist>>
       /\ Cardinality(InFlight("recommend"))' > Cardinality(InFlight("recommend"))
          => fetchRecommendations]_vars

\* two interactions changed the era and the genres; nothing was requested
C21_Witness ==
    /\ Mounted
    /\ ops = 2
    /\ era = "classic"
    /\ selectedGenres = <<"Action">>
    /\ InFlight("recommend") = {}
    /\ recommendations = <<>>

\* C23: the mount effect of an unauthenticated start issues no request.
C23_UnauthenticatedIssuesNothing ==
    [][(Mount /\ ~Authenticated) => net' = net]_vars

\* C24: selectedGenres never holds a genre twice, and a toggle of g flips the
\* membership of g and of no other genre.
C24_ToggleFlipsOne ==
    [][/\ Cardinality(Range(selectedGenres')) = Len(selectedGenres')
       /\ \A g \in Range(GenreCatalog) :
             toggleGenre(g)
             => /\ (g \in Range(selectedGenres')) <=> (g \notin Range(selectedGenres))
                /\ \A h \in Range(GenreCatalog) \ {g} :
                      (h \in Range(selectedGenres')) <=> (h \in Range(selectedGenres))]_vars

\* both genres are selected, the second toggle having kept the first
C24_Witness ==
    /\ Mounted
    /\ Len(selectedGenres) = 2

\* C25: the pending rating is in 0..5, every POST /api/ratings in flight carries a
\* rating in 1..5, and the entry a rate response writes is in 1..5.
C25_RatingRange ==
    [][/\ tempRating \in 0..5
       /\ \A i \in InFlight("rate") : net[i].rating \in 1..5
       /\ \A i \in 1..Len(net) :
             (ReceiveRate(i) /\ Mounted) => userRatings'[net[i].movie] \in 1..5]_vars

\* the commit of five stars for the unrated movie 2 has been applied
C25_Witness ==
    /\ Mounted
    /\ InFlight("rate") = {}
    /\ tempRating = 5
    /\ userRatings[2] = 5
    /\ srvRatings[2] = 5

\* C26: at most one recommendation request is in flight, and while the component
\* is rendered isLoadingRecs is set exactly when one is.
C26_LoadingIffInFlight ==
    /\ Cardinality(InFlight("recommend")) <= 1
    /\ Mounted => (isLoadingRecs <=> InFlight("recommend") # {})

\* the request is still loading after the user left the recommendations tab
C26_Witness ==
    /\ Mounted
    /\ activeTab = "watchlist"
    /\ isLoadingRecs
    /\ InFlight("recommend") # {}

\* C28: a successful rate response is applied as a whole or not at all: either
\* userStats is taken from it and the modal is closed, or userRatings, userStats
\* and the modal are all left as they were.
C28_RateAppliedAtomically ==
    [][\A i \in 1..Len(net) :
          (ReceiveRate(i) /\ Mounted /\ net[i].resp.ok)
          => \/ /\ userRatings'[net[i].movie] = net[i].rating
                /\ statsVer' = net[i].resp.ver
                /\ ratingModal' = ModalClosed
             \/ UNCHANGED <<userRatings, userStats, ratingModal>>]_vars

\* C29: the mount effect treats the start as authenticated iff the token and the
\* user record are both stored; with a token and no user record it redirects to
\* login and issues none of the three authenticated refreshes.
C29_AuthenticatedIffBoth ==
    [][Mount
       => /\ (pc' = "mounted") <=> (localStorage.token # NULL /\ localStorage.user # NULL)
          /\ (localStorage.token # NULL /\ localStorage.user = NULL)
             => /\ pc' = "redirected"
                /\ navCount' = navCount + 1
                /\ \A i \in 1..Len(net') : net'[i].kind \notin Reads]_vars

C29_Witness ==
    /\ pc = "redirected"
    /\ localStorage.token = Token
    /\ localStorage.user = NULL
    /\ navCount = 1

\* C27: an open rating modal is closed only by Cancel or by the success response
\* of a commit for the movie it shows; the success response of a commit for
\* another movie leaves it as it is.
C27_ModalClosedByOwnCommit ==
    [][/\ (ModalVisible /\ ~ModalVisible')
          => \/ CancelRatingModal
             \/ \E i \in 1..Len(net) :
                   ReceiveRate(i) /\ net[i].movie = ratingModal.movie
       /\ \A i \in 1..Len(net) :
             (ReceiveRate(i) /\ ModalVisible /\ net[i].movie # ratingModal.movie)
             => ratingModal' = ratingModal]_vars

\* C22: the session storage changes only when a successful login response stores
\* the token and the user record together, or when logout removes both; so after
\* every step both are present or both absent; and after logout the storage is
\* unauthenticated, on which a dashboard start redirects to login.
C22_StorageWrittenTogether ==
    [][/\ localStorage' # localStorage
          => \/ /\ \E i \in 1..Len(loginNet) : \E body \in LoginFailBodies :
                      ReceiveLogin(i, "ok", body)
                /\ localStorage' = [token |-> Token, user |-> UserRecord]
             \/ /\ handleLogout
                /\ localStorage' = [token |-> NULL, user |-> NULL]
       /\ (localStorage'.token = NULL) <=> (localStorage'.user = NULL)
       /\ handleLogout => ~Authenticated'
       /\ (Mount /\ ~Authenticated) => pc' = "redirected"]_vars

\* after a login the dashboard was left by logout, opened again and redirected
C22_Witness ==
    /\ dashNavCount = 1
    /\ localStorage = [token |-> NULL, user |-> NULL]
    /\ pc = "redirected"
    /\ navCount = 2

\* C30: a registration submission issues no request; one that fails validation
\* leaves the form not loading; and a form that is loading (after a submission
\* that passed validation) eventually stops loading.
C30_SignupReturnsToSubmittable ==
    /\ [][handleSubmit
          => /\ UNCHANGED <<net, loginNet>>
             /\ Validated(formData) # EmptyForm => ~signupLoading']_vars
    /\ signupLoading ~> ~signupLoading

====
